---- MODULE Spec2Model ----
(***************************************************************************)
(* Model of web_scrape.py: the Pricebook crawl loop (scrape_pricebook),    *)
(* the layout classifier (detect_layout), the record extractors            *)
(* (extract_product_data_*_layout, clean_price, extract_spec_value), the   *)
(* CSV store (save_data_to_csv, create_backup) and the dedup ledger        *)
(* (get_existing_phones).                                                  *)
(*                                                                         *)
(* A file is NoFile or a sequence of lines; a line is a header or a row.   *)
(* A parsed page (soup) is a record                                        *)
(*   h2Plain : number of h2 headings with neither "RAM" nor "ROM"          *)
(*   h2Ram   : number of h2 headings with "RAM" only                       *)
(*   h2Rom   : number of h2 headings with "ROM" only                       *)
(*   h2Spec  : number of h2 headings with both                             *)
(*   divs    : the class of each div element, in document order            *)
(* The content of a container or heading is drawn when the loop over the   *)
(* containers reaches it.                                                  *)
(***************************************************************************)
EXTENDS Integers, Sequences, FiniteSets, TLC

VARIABLES
    csv,                \* content of csv_filename, or NoFile
    backups,            \* the files of backups/, ordered by their timestamps
    elapsed,            \* datetime.now() is a later second than the name of
                        \* the latest backup
    cfg,                \* arguments of scrape_pricebook
    pc,                 \* position in scrape_pricebook
    page,
    total_phones,
    empty_pages_count,
    existing_phones,
    retry_count,
    layout_type,
    products,           \* containers (or RAM/ROM headings) still to be scanned
    page_phones,
    waits,              \* time.sleep(wait_time) calls of the current page's fetch
    log,                \* outcome of the last loop iteration: see Entry
    run,                \* bookkeeping of the run: see RunInit
    lastSave,           \* arguments and effect of the last direct call of
                        \* save_data_to_csv
    probe,              \* last detect_layout call: soup, page_number, result
    extraction          \* last direct call of an extractor: see Extraction

vars == <<csv, backups, elapsed, cfg, pc, page, total_phones, empty_pages_count,
          existing_phones, retry_count, layout_type, products, page_phones,
          waits, log, run, lastSave, probe, extraction>>

-----------------------------------------------------------------------------
(* Bounds of the model *)

MaxSpan == 3            \* loop iterations of one run that are explored
MaxProducts == 2        \* containers, or RAM/ROM headings, on one page
MaxPlainH2 == 6         \* h2 headings without RAM/ROM on a probed page
MaxProbeDivs == 2       \* div elements on a probed page
MaxStartPage == 2       \* largest start_page argument
MaxData == 2            \* records handed to one direct save_data_to_csv call
MaxCalls == 2           \* direct calls of the store operations in a row
MaxNodes == 2           \* text nodes, or seller links, of one container
MaxCells == 1           \* td elements, or price-class elements, of one container
MaxItems == 2           \* items of a specs div

-----------------------------------------------------------------------------
(* Values *)

\* An optional value is None or Some(v).
None == <<>>
Some(v) == <<v>>
Value(opt) == opt[1]

NaN == "float(nan)"
NoElement == "NoElement"        \* product.find(...) found no name element

\* A path holds no file, or a file of lines.
NoFile == [exists |-> FALSE, lines |-> <<>>]
File(lines) == [exists |-> TRUE, lines |-> lines]

max_empty_pages == 3
LayoutSwitchPage == 202

Range(s) == {s[i] : i \in 1..Len(s)}

SeqsUpTo(S, n) == UNION {[1..k -> S] : k \in 0..n}

\* Names of old/new products (stripped heading texts).  "NA" is one of the
\* strings pandas.read_csv reads back as a missing value.
ProductNames == {"Galaxy A15", "NA"}
\* Heading texts of the newest layout: they contain "RAM" and "ROM".
HeadingNames == {"Redmi 13 RAM 8GB ROM 128GB"}
Names == ProductNames \cup HeadingNames

Prices == {None, Some(1250000)}

Columns == <<"Name", "Price", "RAM", "Storage", "Camera", "ScreenSize",
             "Battery", "ReleaseYear">>
Header(columns) == [kind |-> "header", columns |-> columns]
Row(phone) ==
    [kind |-> "row", Name |-> phone.Name, Price |-> phone.Price,
     RAM |-> phone.RAM, Storage |-> phone.Storage, Camera |-> phone.Camera,
     ScreenSize |-> phone.ScreenSize, Battery |-> phone.Battery,
     ReleaseYear |-> phone.ReleaseYear]

\* a record of which only Name and Price were found
Listing(name, price) ==
    [Name |-> name, Price |-> price, RAM |-> None, Storage |-> None,
     Camera |-> None, ScreenSize |-> None, Battery |-> None,
     ReleaseYear |-> None]

IsRow(line) == line.kind = "row"
Rows(file) == SelectSeq(file.lines, IsRow)

-----------------------------------------------------------------------------
(* The CSV store: create_backup, save_data_to_csv, get_existing_phones *)

\* The name of a backup is <stem>_<YYYYMMDD_HHMMSS><ext>, so the files of
\* backups/ are a sequence in the order of their seconds, and a call can
\* meet an existing name only when it comes in the second of the latest
\* backup (later is FALSE).
NoBackups == <<>>

\* shutil.copy2(file_path, backup_path) replaces a file of the same name.
\* Nothing happens when file_path does not exist.
create_backup(backs, file, later) ==
    IF file.exists
    THEN IF later \/ backs = <<>>
         THEN Append(backs, file)
         ELSE [backs EXCEPT ![Len(backs)] = file]
    ELSE backs

\* whether a second has passed since the latest backup, after the call
after_backup(file, later) == IF file.exists THEN FALSE ELSE later

\* pd.DataFrame(data): the columns are the keys of the records; a frame
\* made from no records has no columns.
DataFrameColumns(data) == IF data = <<>> THEN <<>> ELSE Columns

\* df.to_csv(csv_filename, mode, header, index=False)
to_csv(file, data, mode, header) ==
    LET lines == (IF header THEN <<Header(DataFrameColumns(data))>> ELSE <<>>)
                 \o [i \in 1..Len(data) |-> Row(data[i])]
    IN  File(IF mode = "a" THEN file.lines \o lines ELSE lines)

\* save_data_to_csv with header = not append
save_data_to_csv_headless(backs, file, data, append, later) ==
    LET file_exists == file.exists
        mode == IF append /\ file_exists THEN "a" ELSE "w"
        header == ~append
    IN  [backups |-> IF file_exists /\ ~append
                     THEN create_backup(backs, file, later) ELSE backs,
         elapsed |-> IF file_exists /\ ~append
                     THEN after_backup(file, later) ELSE later,
         csv |-> to_csv(file, data, mode, header)]

save_data_to_csv(backs, file, data, append, later) ==
    LET file_exists == file.exists
        mode == IF append /\ file_exists THEN "a" ELSE "w"
        header == ~(append /\ file_exists)
    IN  [backups |-> IF file_exists /\ ~append
                     THEN create_backup(backs, file, later) ELSE backs,
         elapsed |-> IF file_exists /\ ~append
                     THEN after_backup(file, later) ELSE later,
         csv |-> to_csv(file, data, mode, header)]

\* Default na_values of pandas.read_csv.
NaValues == {"", "#N/A", "#N/A N/A", "#NA", "-1.#IND", "-1.#QNAN", "-NaN",
             "-nan", "1.#IND", "1.#QNAN", "<NA>", "N/A", "NA", "NULL", "NaN",
             "None", "n/a", "nan", "null"}

\* pd.read_csv of one cell of the Name column (no name of the model is
\* numeric, so the column keeps the object dtype).
read_csv_value(text) == IF text \in NaValues THEN NaN ELSE text

get_existing_phones(file) ==
    IF file.exists /\ file.lines # <<>> /\ Head(file.lines).kind = "header"
       /\ "Name" \in Range(Head(file.lines).columns)
    THEN {read_csv_value(r.Name) : r \in Range(Rows(file))}
    ELSE {}

-----------------------------------------------------------------------------
(* detect_layout and the container selection of scrape_pricebook *)

\* class attributes of the div elements of the model
Classes == {"styles_productPanel__Tlvp6", "mobile_productPanel",
            "productListPanel", "row", "list-item", "card", "footer"}

\* div[class*="productPanel"]
HasProductPanel == {"styles_productPanel__Tlvp6", "mobile_productPanel"}
\* div.styles_productPanel__Tlvp6, find_all('div', class_='styles_productPanel__Tlvp6')
ExactPanel == {"styles_productPanel__Tlvp6"}
\* div[class*="product"][class*="Panel"]
HasProductAndPanel == {"styles_productPanel__Tlvp6", "mobile_productPanel",
                       "productListPanel"}
\* find_all('div', class_='row')
RowClass == {"row"}
\* 'product' in c.lower() or 'item' in c.lower()
ProductOrItem == {"styles_productPanel__Tlvp6", "mobile_productPanel",
                  "productListPanel", "list-item"}
\* any(term in c.lower() for term in ['product', 'item', 'card', 'listing'])
ProductLike == ProductOrItem \cup {"card"}

\* the div elements of soup whose class is in S, in document order (as
\* positions in soup.divs)
Select(soup, S) ==
    SelectSeq([i \in 1..Len(soup.divs) |-> i], LAMBDA i : soup.divs[i] \in S)

\* soup.find_all('h2'): the headings are counted by what their text holds
h2_headers(soup) == soup.h2Plain + soup.h2Ram + soup.h2Rom + soup.h2Spec

\* the headings with "RAM" in header.text and "ROM" in header.text
RamRomHeaders(soup) == soup.h2Spec

\* detect_layout with the loop of lines 134-136 ahead of that of lines
\* 129-131
detect_layout_old_first(soup, page_number) ==
    IF h2_headers(soup) > 5 /\ RamRomHeaders(soup) > 0 THEN "newest"
    ELSE LET default_layout ==
                 IF page_number >= LayoutSwitchPage THEN "new" ELSE "old"
             new_layout_indicators ==
                 <<Select(soup, HasProductPanel), Select(soup, ExactPanel),
                   Select(soup, HasProductAndPanel)>>
             old_layout_indicators ==
                 <<Select(soup, ExactPanel), Select(soup, RowClass)>>
         IN  IF \E i \in 1..2 : Len(old_layout_indicators[i]) > 0 THEN "old"
             ELSE IF \E i \in 1..3 : Len(new_layout_indicators[i]) > 0 THEN "new"
             ELSE default_layout

\* detect_layout with len(h2_headers) >= 5
detect_layout_five(soup, page_number) ==
    IF h2_headers(soup) >= 5 /\ RamRomHeaders(soup) > 0 THEN "newest"
    ELSE LET default_layout ==
                 IF page_number >= LayoutSwitchPage THEN "new" ELSE "old"
         IN  IF \E i \in 1..Len(soup.divs) : soup.divs[i] \in HasProductAndPanel
             THEN "new"
             ELSE IF \E i \in 1..Len(soup.divs) :
                         soup.divs[i] \in ExactPanel \cup RowClass
             THEN "old"
             ELSE default_layout

detect_layout(soup, page_number) ==
    IF h2_headers(soup) > 5 /\ RamRomHeaders(soup) > 0 THEN "newest"
    ELSE LET default_layout ==
                 IF page_number >= LayoutSwitchPage THEN "new" ELSE "old"
             new_layout_indicators ==
                 <<Select(soup, HasProductPanel), Select(soup, ExactPanel),
                   Select(soup, HasProductAndPanel)>>
             old_layout_indicators ==
                 <<Select(soup, ExactPanel), Select(soup, RowClass)>>
         IN  IF \E i \in 1..3 : Len(new_layout_indicators[i]) > 0 THEN "new"
             ELSE IF \E i \in 1..2 : Len(old_layout_indicators[i]) > 0 THEN "old"
             ELSE default_layout

OrElse(first, second) == IF first # <<>> THEN first ELSE second

\* lines 590-617: the containers of an old or new page
find_products(soup, layout) ==
    LET found ==
            IF layout = "old"
            THEN OrElse(Select(soup, ExactPanel), Select(soup, RowClass))
            ELSE OrElse(Select(soup, ExactPanel),
                        OrElse(Select(soup, HasProductPanel),
                               Select(soup, ProductOrItem)))
    IN  OrElse(found, Select(soup, ProductLike))

-----------------------------------------------------------------------------
(* Texts.  A text of the page is written as a string; the functions of  *)
(* str and re work on its characters, Characters[text].                 *)

\* the characters of the texts of the model
Characters ==
    ("" :> <<>>) @@
    ("Galaxy A15" :> <<"G", "a", "l", "a", "x", "y", " ", "A", "1", "5">>) @@
    (" Galaxy A15 " :> <<" ", "G", "a", "l", "a", "x", "y", " ", "A", "1", "5", " ">>) @@
    ("NA" :> <<"N", "A">>) @@
    ("Redmi 13 RAM 8GB ROM 128GB" :> <<"R", "e", "d", "m", "i", " ", "1", "3", " ", "R", "A", "M", " ", "8", "G", "B", " ", "R", "O", "M", " ", "1", "2", "8", "G", "B">>) @@
    ("Poco X6 RAM 7.5GB ROM 256GB" :> <<"P", "o", "c", "o", " ", "X", "6", " ", "R", "A", "M", " ", "7", ".", "5", "G", "B", " ", "R", "O", "M", " ", "2", "5", "6", "G", "B">>) @@
    ("Rp 1.250.000" :> <<"R", "p", " ", "1", ".", "2", "5", "0", ".", "0", "0", "0">>) @@
    ("Rp 999.000" :> <<"R", "p", " ", "9", "9", "9", ".", "0", "0", "0">>) @@
    ("Rp 750.000" :> <<"R", "p", " ", "7", "5", "0", ".", "0", "0", "0">>) @@
    ("Rp 500.000" :> <<"R", "p", " ", "5", "0", "0", ".", "0", "0", "0">>) @@
    ("Rp 0" :> <<"R", "p", " ", "0">>) @@
    ("Rp -" :> <<"R", "p", " ", "-">>) @@
    ("Rilis 2021" :> <<"R", "i", "l", "i", "s", " ", "2", "0", "2", "1">>) @@
    ("2023" :> <<"2", "0", "2", "3">>) @@
    ("1999" :> <<"1", "9", "9", "9">>) @@
    ("0" :> <<"0">>) @@
    ("n/a" :> <<"n", "/", "a">>) @@
    ("8GB" :> <<"8", "G", "B">>) @@
    ("RAM 8GB" :> <<"R", "A", "M", " ", "8", "G", "B">>) @@
    ("ROM 128GB" :> <<"R", "O", "M", " ", "1", "2", "8", "G", "B">>) @@
    ("50 MP" :> <<"5", "0", " ", "M", "P">>) @@
    ("6.5 inch" :> <<"6", ".", "5", " ", "i", "n", "c", "h">>) @@
    ("1.2.3 inch" :> <<"1", ".", "2", ".", "3", " ", "i", "n", "c", "h">>) @@
    ("5000 mAh" :> <<"5", "0", "0", "0", " ", "m", "A", "h">>) @@
    ("Rp 1.250.000 50 MP 6.5 inch 5000 mAh 2023" :> <<"R", "p", " ", "1", ".", "2", "5", "0", ".", "0", "0", "0", " ", "5", "0", " ", "M", "P", " ", "6", ".", "5", " ", "i", "n", "c", "h", " ", "5", "0", "0", "0", " ", "m", "A", "h", " ", "2", "0", "2", "3">>) @@
    ("Rp 1.250.000 50 MP 1.2.3 inch 5000 mAh 2023" :> <<"R", "p", " ", "1", ".", "2", "5", "0", ".", "0", "0", "0", " ", "5", "0", " ", "M", "P", " ", "1", ".", "2", ".", "3", " ", "i", "n", "c", "h", " ", "5", "0", "0", "0", " ", "m", "A", "h", " ", "2", "0", "2", "3">>) @@
    ("Rp 1.250.000 50 MP  5000 mAh 2023" :> <<"R", "p", " ", "1", ".", "2", "5", "0", ".", "0", "0", "0", " ", "5", "0", " ", "M", "P", " ", " ", "5", "0", "0", "0", " ", "m", "A", "h", " ", "2", "0", "2", "3">>)

Digits == {"0", "1", "2", "3", "4", "5", "6", "7", "8", "9"}
Whitespace == {" "}
\* the characters of the texts that are not \w of re (the others are
\* letters and digits)
NonWordCharacters == {" ", ".", "-", "+", "/", ","}

DigitString == <<"0", "1", "2", "3", "4", "5", "6", "7", "8", "9">>
DigitValue(c) == (CHOOSE i \in 1..10 : DigitString[i] = c) - 1

RECURSIVE Decimal(_)
Decimal(digits) ==
    IF digits = <<>> THEN 0
    ELSE 10 * Decimal(SubSeq(digits, 1, Len(digits) - 1))
         + DigitValue(digits[Len(digits)])

Lower == <<"a", "b", "c", "d", "e", "f", "g", "h", "i", "j", "k", "l", "m",
           "n", "o", "p", "q", "r", "s", "t", "u", "v", "w", "x", "y", "z">>
Upper == <<"A", "B", "C", "D", "E", "F", "G", "H", "I", "J", "K", "L", "M",
           "N", "O", "P", "Q", "R", "S", "T", "U", "V", "W", "X", "Y", "Z">>

\* str.upper()
upper(chars) ==
    [i \in 1..Len(chars) |->
        IF \E k \in 1..Len(Lower) : Lower[k] = chars[i]
        THEN Upper[CHOOSE k \in 1..Len(Lower) : Lower[k] = chars[i]]
        ELSE chars[i]]

Min(S) == CHOOSE x \in S : \A y \in S : x <= y
Max(S) == CHOOSE x \in S : \A y \in S : x >= y

\* str.strip()
strip(chars) ==
    LET kept == {i \in 1..Len(chars) : chars[i] \notin Whitespace}
    IN  IF kept = {} THEN <<>> ELSE SubSeq(chars, Min(kept), Max(kept))

StartsAt(chars, sub, i) ==
    /\ i + Len(sub) - 1 <= Len(chars)
    /\ SubSeq(chars, i, i + Len(sub) - 1) = sub

\* sub in chars
Contains(sub, chars) == \E i \in 1..(Len(chars) + 1) : StartsAt(chars, sub, i)

\* str.replace(old, new): the occurrences of old from left to right
RECURSIVE replace(_, _, _)
replace(chars, old, new) ==
    IF chars = <<>> THEN <<>>
    ELSE IF StartsAt(chars, old, 1)
         THEN new \o replace(SubSeq(chars, Len(old) + 1, Len(chars)), old, new)
         ELSE <<Head(chars)>> \o replace(Tail(chars), old, new)

AllIn(chars, S) == \A i \in 1..Len(chars) : chars[i] \in S

\* int(text): None stands for ValueError.  The texts of the model hold no
\* underscore, which int() would accept between digits.
int(chars) ==
    LET s == strip(chars)
        signed == s # <<>> /\ s[1] \in {"+", "-"}
        body == IF signed THEN Tail(s) ELSE s
    IN  IF body # <<>> /\ AllIn(body, Digits)
        THEN Some(IF signed /\ s[1] = "-" THEN 0 - Decimal(body)
                  ELSE Decimal(body))
        ELSE None

\* A number parsed from a specification text: an int, or a float held as
\* the decimal fraction num / den in lowest decimal terms.
PyInt(n) == [type |-> "int", num |-> n, den |-> 1]

RECURSIVE PyFloat(_, _)
PyFloat(num, den) ==
    IF den > 1 /\ num % 10 = 0 THEN PyFloat(num \div 10, den \div 10)
    ELSE [type |-> "float", num |-> num, den |-> den]

RECURSIVE Power10(_)
Power10(n) == IF n = 0 THEN 1 ELSE 10 * Power10(n - 1)

\* float(text) for a text of digits and dots: None stands for ValueError
float(chars) ==
    LET s == strip(chars)
        dots == {i \in 1..Len(s) : s[i] = "."}
        digits == SelectSeq(s, LAMBDA c : c \in Digits)
    IN  IF /\ AllIn(s, Digits \cup {"."})
           /\ Cardinality(dots) <= 1
           /\ digits # <<>>
        THEN Some(PyFloat(Decimal(digits),
                        IF dots = {} THEN 1
                        ELSE Power10(Len(s) - Min(dots))))
        ELSE None

\* lines 25-34
clean_price(price_text) ==
    IF price_text = <<>> THEN None
    ELSE int(strip(replace(replace(price_text, <<"R", "p">>, <<>>),
                           <<".">>, <<>>)))

\* The patterns of the extractors are sequences of these items.  A greedy
\* run never has to give characters back: in every pattern of the source
\* the item after a run starts with a character outside the run's set.
Lit(chars) == [kind |-> "literal", chars |-> chars, set |-> {}]
Spaces == [kind |-> "spaces", chars |-> <<>>, set |-> Whitespace]       \* \s*
Group(S) == [kind |-> "group", chars |-> <<>>, set |-> S]               \* ([S]+)
GroupDecimal == [kind |-> "decimal", chars |-> <<>>, set |-> Digits]    \* (\d+(?:\.\d+)?)

NoMatch == [ok |-> FALSE, start |-> 0, end |-> 0, group |-> <<>>]

\* the first position from pos on whose character is not in S
RunEnd(chars, pos, S) ==
    Min({i \in pos..(Len(chars) + 1) : i = Len(chars) + 1 \/ chars[i] \notin S})

RECURSIVE match(_, _, _, _, _)
match(pattern, chars, start, pos, group) ==
    IF pattern = <<>>
    THEN [ok |-> TRUE, start |-> start, end |-> pos, group |-> group]
    ELSE LET item == Head(pattern)
             rest == Tail(pattern)
             stop == RunEnd(chars, pos, item.set)
         IN  CASE item.kind = "literal" ->
                      IF StartsAt(chars, item.chars, pos)
                      THEN match(rest, chars, start, pos + Len(item.chars), group)
                      ELSE NoMatch
               [] item.kind = "spaces" -> match(rest, chars, start, stop, group)
               [] item.kind = "group" ->
                      IF stop > pos
                      THEN match(rest, chars, start, stop, SubSeq(chars, pos, stop - 1))
                      ELSE NoMatch
               [] item.kind = "decimal" ->
                      LET frac == IF /\ stop + 1 <= Len(chars)
                                     /\ chars[stop] = "."
                                     /\ chars[stop + 1] \in Digits
                                  THEN RunEnd(chars, stop + 1, Digits)
                                  ELSE stop
                      IN  IF stop > pos
                          THEN match(rest, chars, start, frac,
                                     SubSeq(chars, pos, frac - 1))
                          ELSE NoMatch

\* re.search(pattern, text): the leftmost match
re_search(pattern, chars) ==
    LET starts == {i \in 1..(Len(chars) + 1) :
                       match(pattern, chars, i, i, <<>>).ok}
    IN  IF starts = {} THEN NoMatch
        ELSE match(pattern, chars, Min(starts), Min(starts), <<>>)

group0(chars, m) == SubSeq(chars, m.start, m.end - 1)

\* re.search(r'\b(20\d{2})\b', text)
year_search(chars) ==
    LET boundary(i) ==      \* \b between positions i - 1 and i
            (i > 1 /\ chars[i - 1] \notin NonWordCharacters)
                # (i <= Len(chars) /\ chars[i] \notin NonWordCharacters)
        starts == {i \in 1..(Len(chars) - 3) :
                       /\ boundary(i)
                       /\ chars[i] = "2" /\ chars[i + 1] = "0"
                       /\ chars[i + 2] \in Digits /\ chars[i + 3] \in Digits
                       /\ boundary(i + 4)}
    IN  IF starts = {} THEN NoMatch
        ELSE [ok |-> TRUE, start |-> Min(starts), end |-> Min(starts) + 4,
              group |-> SubSeq(chars, Min(starts), Min(starts) + 3)]

\* lines 36-47
extract_spec_value(text, pattern) ==
    IF text = <<>> THEN None
    ELSE LET m == re_search(pattern, text)
         IN  IF m.ok
             THEN IF Contains(<<".">>, m.group)
                  THEN float(strip(m.group))
                  ELSE IF int(strip(m.group)) = None THEN None
                       ELSE Some(PyInt(Value(int(strip(m.group)))))
             ELSE None

GB == <<"G", "B">>
MP == <<"M", "P">>
mAh == <<"m", "A", "h">>
inch == <<"i", "n", "c", "h">>
Rp == <<"R", "p">>
RAM == <<"R", "A", "M">>
ROM == <<"R", "O", "M">>
STORAGE == <<"S", "T", "O", "R", "A", "G", "E">>

-----------------------------------------------------------------------------
(* The record extractors.  A product container is a record                *)
(*   name   : text of its name element, or NoElement                      *)
(*   year   : text of the span of its year-released div, or NoElement     *)
(*   texts  : its text nodes, in document order                           *)
(*   links  : texts of its seller links (href with track/seller)          *)
(*   cells  : texts of its td elements                                    *)
(*   priced : texts of its elements with a class containing "price"       *)
(*   specs  : texts of the items of its specs div (none without one)     *)
(* and a heading of the newest layout is a record                         *)
(*   text   : text of the h2 element                                      *)
(*   link   : text of the next a element, or NoElement                    *)

Text(string) == Characters[string]
String(chars) == CHOOSE s \in DOMAIN Characters : Characters[s] = chars

NumberGB == <<Group(Digits), Spaces, Lit(GB)>>                  \* (\d+)\s*GB
NumberMP == <<Group(Digits), Spaces, Lit(MP)>>                  \* (\d+)\s*MP
NumberMAh == <<Group(Digits), Spaces, Lit(mAh)>>                \* (\d+)\s*mAh
NumberInch == <<Group(Digits \cup {"."}), Spaces, Lit(inch)>>   \* ([\d.]+)\s*inch
RomGB == <<Lit(ROM), Spaces, Group(Digits), Spaces, Lit(GB)>>   \* ROM\s*(\d+)\s*GB
RamGB == <<Lit(RAM), Spaces, Group(Digits), Spaces, Lit(GB)>>   \* RAM\s*(\d+)\s*GB
RamDecimalGB == <<Lit(RAM), Spaces, GroupDecimal, Spaces, Lit(GB)>>
                                                \* RAM\s*(\d+(?:\.\d+)?)\s*GB
RpNumber == <<Lit(Rp), Spaces, Group(Digits \cup {"."})>>       \* Rp\s*([\d\.]+)

Truthy(opt) == opt # None /\ Value(opt) # 0

\* lines 157-166 and 290-299: the year-released element
year_released(product) ==
    IF product.year = NoElement THEN None
    ELSE int(strip(Text(product.year)))

\* lines 169-178 and 302-311: the first text node with a 4-digit year
RECURSIVE year_scan(_, _)
year_scan(texts, release_year) ==
    IF texts = <<>> THEN release_year
    ELSE LET m == year_search(strip(Text(Head(texts))))
         IN  IF m.ok THEN int(m.group)
             ELSE year_scan(Tail(texts), release_year)

release_year_of(product) ==
    LET release_year == year_released(product)
    IN  IF ~Truthy(release_year) THEN year_scan(product.texts, release_year)
        ELSE release_year

\* the texts of a sequence that contain 'Rp'
WithRp(texts) == SelectSeq(texts, LAMBDA t : Contains(Rp, Text(t)))

\* lines 318-322 and 335-338: the first candidate decides, parsed or not
first_candidate(candidates) ==
    IF candidates = <<>> THEN None
    ELSE clean_price(strip(Text(Head(candidates))))

\* lines 184-188, 193-197, 326-330 and 343-347: the loop leaves at the
\* first candidate whose price is truthy, and otherwise keeps the price of
\* the candidate it saw last
RECURSIVE until_truthy(_, _)
until_truthy(candidates, price) ==
    IF candidates = <<>> THEN price
    ELSE LET found == clean_price(strip(Text(Head(candidates))))
         IN  IF Truthy(found) THEN found
             ELSE until_truthy(Tail(candidates), found)

\* lines 313-347
price_old_layout(product) ==
    LET method1 == first_candidate(WithRp(product.links))
        method2 == IF method1 = None
                   THEN until_truthy(WithRp(product.texts), method1)
                   ELSE method1
        method3 == IF method2 = None
                   THEN first_candidate(WithRp(product.cells))
                   ELSE method2
    IN  IF method3 = None
        THEN until_truthy(WithRp(product.priced), method3)
        ELSE method3

\* lines 180-197
price_new_layout(product) ==
    LET method1 == until_truthy(WithRp(product.texts), None)
    IN  IF method1 = None
        THEN until_truthy(WithRp(product.priced), method1)
        ELSE method1

\* The locals of the loop over the spec items; ramItem and storageItem
\* are the index of the item that gave ram and storage their value, and
\* raised tells that an exception left the loop.
NoSpecs == [ram |-> None, storage |-> None, camera |-> None, screen |-> None,
            battery |-> None, ramItem |-> 0, storageItem |-> 0,
            raised |-> FALSE]

GroupInt(m) == Some(PyInt(Value(int(m.group))))

\* lines 364-382: one item of the old layout
spec_item_old_layout(st, item, k) ==
    LET spec_text == strip(Text(item))
        up == upper(spec_text)
        forRam == Contains(GB, spec_text)
                      /\ (Contains(RAM, up) \/ st.ram = None)
        ram == IF forRam THEN extract_spec_value(spec_text, NumberGB)
               ELSE st.ram
        storage_match == re_search(NumberGB, spec_text)
        forStorage == /\ Contains(GB, spec_text)
                      /\ (Contains(ROM, up) \/ Contains(STORAGE, up)
                             \/ st.storage = None)
                      /\ storage_match.ok
                      /\ ~Contains(RAM, up)
    IN  [ram |-> ram,
         storage |-> IF forStorage THEN GroupInt(storage_match) ELSE st.storage,
         camera |-> IF Contains(MP, spec_text) /\ st.camera = None
                    THEN extract_spec_value(spec_text, NumberMP)
                    ELSE st.camera,
         screen |-> IF Contains(inch, spec_text) /\ st.screen = None
                    THEN extract_spec_value(spec_text, NumberInch)
                    ELSE st.screen,
         battery |-> IF Contains(mAh, spec_text) /\ st.battery = None
                     THEN extract_spec_value(spec_text, NumberMAh)
                     ELSE st.battery,
         ramItem |-> IF forRam THEN (IF ram = None THEN 0 ELSE k)
                     ELSE st.ramItem,
         storageItem |-> IF forStorage THEN k ELSE st.storageItem,
         raised |-> FALSE]

\* lines 215-246: one item of the new layout
spec_item_new_layout(st, item, k) ==
    LET spec_text == strip(Text(item))
        up == upper(spec_text)
        ram_match == re_search(NumberGB, spec_text)
        forRam == /\ Contains(GB, spec_text)
                  /\ (Contains(RAM, up) \/ st.ram = None)
                  /\ ram_match.ok
        storage_match == re_search(NumberGB, spec_text)
        forStorage == /\ Contains(GB, spec_text)
                      /\ (Contains(ROM, up) \/ Contains(STORAGE, up)
                             \/ st.storage = None)
                      /\ storage_match.ok
                      /\ ~Contains(RAM, up)
        camera_match == re_search(NumberMP, spec_text)
        screen_match == re_search(NumberInch, spec_text)
        forScreen == /\ Contains(inch, spec_text) /\ st.screen = None
                     /\ screen_match.ok
        battery_match == re_search(NumberMAh, spec_text)
    IN  IF forScreen /\ float(screen_match.group) = None
        THEN [st EXCEPT !.raised = TRUE]        \* ValueError at line 240
        ELSE
        [ram |-> IF forRam THEN GroupInt(ram_match) ELSE st.ram,
         storage |-> IF forStorage THEN GroupInt(storage_match) ELSE st.storage,
         camera |-> IF Contains(MP, spec_text) /\ st.camera = None
                        /\ camera_match.ok
                    THEN GroupInt(camera_match) ELSE st.camera,
         screen |-> IF forScreen THEN float(screen_match.group) ELSE st.screen,
         battery |-> IF Contains(mAh, spec_text) /\ st.battery = None
                         /\ battery_match.ok
                     THEN GroupInt(battery_match) ELSE st.battery,
         ramItem |-> IF forRam THEN k ELSE st.ramItem,
         storageItem |-> IF forStorage THEN k ELSE st.storageItem,
         raised |-> FALSE]

\* lines 211-246 and 361-382: the loop over the spec items from item k on
RECURSIVE spec_items(_, _, _, _)
spec_items(layout, items, k, st) ==
    IF k > Len(items) \/ st.raised THEN st
    ELSE spec_items(layout, items, k + 1,
                    IF layout = "new"
                    THEN spec_item_new_layout(st, items[k], k)
                    ELSE spec_item_old_layout(st, items[k], k))

specs_of(layout, product) == spec_items(layout, product.specs, 1, NoSpecs)

\* lines 248-268 and 384-404: the fallbacks on the name, and the record
phone_data_of(name, price, st, release_year) ==
    [Name |-> String(name),
     Price |-> price,
     RAM |-> IF st.ram = None /\ Contains(RAM, name)
             THEN extract_spec_value(name, RamGB) ELSE st.ram,
     Storage |-> IF st.storage = None /\ Contains(ROM, name)
                 THEN extract_spec_value(name, RomGB) ELSE st.storage,
     Camera |-> st.camera,
     ScreenSize |-> st.screen,
     Battery |-> st.battery,
     ReleaseYear |-> release_year]

\* lines 274-408
extract_product_data_old_layout(product) ==
    IF product.name = NoElement THEN None
    ELSE Some(phone_data_of(strip(Text(product.name)),
                            price_old_layout(product),
                            specs_of("old", product),
                            release_year_of(product)))

\* lines 141-272
extract_product_data_new_layout(product) ==
    IF product.name = NoElement THEN None
    ELSE IF specs_of("new", product).raised THEN None   \* lines 270-272
    ELSE Some(phone_data_of(strip(Text(product.name)),
                            price_new_layout(product),
                            specs_of("new", product),
                            release_year_of(product)))

\* lines 410-485
extract_product_data_newest_layout(header_element) ==
    LET name == strip(Text(header_element.text))
        ram_match == re_search(RamDecimalGB, name)
        storage_match == re_search(RomGB, name)
        linked == header_element.link # NoElement
        link_text == IF linked THEN strip(Text(header_element.link)) ELSE <<>>
        price_match == re_search(RpNumber, link_text)
        camera_match == re_search(NumberMP, link_text)
        screen_match == re_search(NumberInch, link_text)
        battery_match == re_search(NumberMAh, link_text)
        year_match == year_search(link_text)
    IN  IF linked /\ screen_match.ok /\ float(screen_match.group) = None
        THEN None                               \* ValueError at line 456
        ELSE Some(
        [Name |-> String(name),
         Price |-> IF linked /\ price_match.ok
                   THEN clean_price(group0(link_text, price_match))
                   ELSE None,
         RAM |-> IF ram_match.ok
                 THEN IF Contains(<<".">>, ram_match.group)
                      THEN float(ram_match.group)
                      ELSE GroupInt(ram_match)
                 ELSE None,
         Storage |-> IF storage_match.ok THEN GroupInt(storage_match) ELSE None,
         Camera |-> IF linked /\ camera_match.ok
                    THEN GroupInt(camera_match) ELSE None,
         ScreenSize |-> IF linked /\ screen_match.ok
                        THEN float(screen_match.group) ELSE None,
         Battery |-> IF linked /\ battery_match.ok
                     THEN GroupInt(battery_match) ELSE None,
         ReleaseYear |-> IF linked /\ year_match.ok
                         THEN int(year_match.group) ELSE None])

\* The containers and headings of a crawled page: a name element and
\* a price text, or not.
Container(name, nodes) ==
    [name |-> name, year |-> NoElement, texts |-> nodes, links |-> <<>>,
     cells |-> <<>>, priced |-> <<>>, specs |-> <<>>]

Containers ==
    {Container(name, nodes) :
         name \in ProductNames, nodes \in {<<>>, <<"Rp 1.250.000">>}}
        \cup {Container("", <<"Rp 1.250.000">>), Container(NoElement, <<>>)}
Headers == [text : HeadingNames, link : {NoElement, "Rp 1.250.000"}]

\* what the extractors return for them, tabulated
OldLayoutData ==
    <<>> @@ [product \in Containers |-> extract_product_data_old_layout(product)]
NewLayoutData ==
    <<>> @@ [product \in Containers |-> extract_product_data_new_layout(product)]
NewestLayoutData ==
    <<>> @@ [header \in Headers |-> extract_product_data_newest_layout(header)]

Scanned(phones, ledger) == [page_phones |-> phones, existing_phones |-> ledger]

\* lines 567-587: one heading of a newest page
scan_header(phone_data, phones, ledger) ==
    IF phone_data = None \/ Value(phone_data).Name = "" THEN Scanned(phones, ledger)
    ELSE IF Value(phone_data).Name \in ledger THEN Scanned(phones, ledger)
    ELSE Scanned(Append(phones, Value(phone_data)),
                 ledger \cup {Value(phone_data).Name})

\* scan_product without the price test of line 647
scan_product_unpriced(phone_data, phones, ledger) ==
    IF phone_data = None \/ Value(phone_data).Name = "" THEN Scanned(phones, ledger)
    ELSE IF Value(phone_data).Name \in ledger THEN Scanned(phones, ledger)
    ELSE Scanned(Append(phones, Value(phone_data)),
                 ledger \cup {Value(phone_data).Name})

\* scan_product with line 649 ahead of the price test of line 647
scan_product_ledgered(phone_data, phones, ledger) ==
    IF phone_data = None \/ Value(phone_data).Name = "" THEN Scanned(phones, ledger)
    ELSE IF Value(phone_data).Name \in ledger THEN Scanned(phones, ledger)
    ELSE IF Value(phone_data).Price # None
         THEN Scanned(Append(phones, Value(phone_data)),
                      ledger \cup {Value(phone_data).Name})
         ELSE Scanned(phones, ledger \cup {Value(phone_data).Name})

\* lines 631-654: one container of an old or new page
scan_product(phone_data, phones, ledger) ==
    IF phone_data = None \/ Value(phone_data).Name = "" THEN Scanned(phones, ledger)
    ELSE IF Value(phone_data).Name \in ledger THEN Scanned(phones, ledger)
    ELSE IF Value(phone_data).Price # None
         THEN Scanned(Append(phones, Value(phone_data)),
                      ledger \cup {Value(phone_data).Name})
         ELSE Scanned(phones, ledger)

-----------------------------------------------------------------------------------------------------------------------------------------------------
(* scrape_pricebook *)

\* The store before a run: missing, or written by an earlier run.
EarlierStore ==
    File(<<Header(Columns),
           Row(Listing("Galaxy A15", Some(1250000))),
           Row(Listing("NA", Some(1250000)))>>)

InitialStores == {NoFile, EarlierStore}

\* Arguments and store of the explored runs: those that differ from the
\* base run, which resumes a crawl, in at most one of them.
AllRuns == [start_page : 1..MaxStartPage,
            end_page : {None, Some(2)},
            backup_interval : {1, 2},
            max_retries : {0, 1, 3},
            retry_delay : {30},
            csv : InitialStores]

BaseRun == [start_page |-> 1, end_page |-> None, backup_interval |-> 2,
            max_retries |-> 1, retry_delay |-> 30, csv |-> EarlierStore]

Runs ==
    {r \in AllRuns :
        Cardinality({f \in DOMAIN BaseRun : r[f] # BaseRun[f]}) <= 1}

Config(r) == [f \in DOMAIN r \ {"csv"} |-> r[f]]

BaseConfig == Config(BaseRun)

CrawlClasses == {"styles_productPanel__Tlvp6", "row", "footer"}

\* The pages the site may serve: some h2 headings, and div elements of
\* one class.
CrawlSoups ==
    {[h2Plain |-> plain, h2Ram |-> 0, h2Rom |-> 0, h2Spec |-> spec,
      divs |-> [i \in 1..n |-> class]] :
        plain \in {0, 5}, spec \in 0..MaxProducts,
        n \in 0..MaxProducts, class \in CrawlClasses}

NoSoup == [h2Plain |-> 0, h2Ram |-> 0, h2Rom |-> 0, h2Spec |-> 0, divs |-> <<>>]
NoProbe == [soup |-> NoSoup, page_number |-> 0, result |-> "none"]

NoExtraction ==
    [layout |-> "none", source |-> NoElement, done |-> FALSE, result |-> None,
     specs |-> NoSpecs]

NoSave == [called |-> FALSE, data |-> <<>>, append |-> FALSE,
           before |-> NoFile, after |-> NoFile,
           backupsBefore |-> NoBackups, backupsAfter |-> NoBackups,
           later |-> TRUE]

Saved(data, append, before, backsBefore, result, later) ==
    [called |-> TRUE, data |-> data, append |-> append,
     before |-> before, after |-> result.csv,
     backupsBefore |-> backsBefore, backupsAfter |-> result.backups,
     later |-> later]

\* Bookkeeping of a run:
\*   csv0, seeded  the store and the ledger at crawl start
\*   iters         loop iterations begun
\*   since         pages processed without exception since crawl start or
\*                 the last interval backup
\*   zero          the most recent iterations, this many, each fetched its
\*                 page and accepted no record
\*   bare          the most recent iterations, this many, each fetched its
\*                 page and found no container
\*   mark          the store and the total before those iterations
\*   accepted      names of the records accepted so far
\*   unpriced      names of the candidates of the page being scanned that
\*                 were rejected for an absent Price
Mark(file, total) == [csv |-> file, total |-> total]

RunInit(file, ledger) ==
    [csv0 |-> file, seeded |-> ledger, iters |-> 0, since |-> 0,
     zero |-> 0, bare |-> 0, mark |-> Mark(file, 0), accepted |-> {},
     unpriced |-> {}]

NotBare ==
    [run EXCEPT !.zero = 0, !.bare = 0, !.mark = Mark(csv', total_phones'),
                !.unpriced = {}]

\* The last loop iteration: how it ended, the layout detected, and
\* whether it wrote the store, raised the total, made the interval backup,
\* slept the delay between pages, or left the loop.
NoEntry == [kind |-> "none", layout |-> "none", wrote |-> FALSE, gain |-> 0,
            backup |-> FALSE, slept |-> FALSE, stop |-> FALSE]

Entry(kind, layout, backup, slept) ==
    [kind |-> kind, layout |-> layout, wrote |-> csv' # csv,
     gain |-> total_phones' - total_phones,
     backup |-> backup, slept |-> slept, stop |-> pc' \in {"done", "raised"}]

InRange == IF cfg.end_page = None THEN TRUE ELSE page <= Value(cfg.end_page)

\* layout_type and page_phones are dead after an iteration, until lines
\* 556 and 560 assign them again
locals == <<layout_type, products, page_phones>>
ResetLocals == layout_type' = "none" /\ products' = 0 /\ page_phones' = <<>>

files == <<csv, backups>>
others == <<cfg, probe, lastSave, extraction>>

CrawlInit ==
    /\ \E r \in Runs : csv = r.csv /\ cfg = Config(r)
    /\ backups = NoBackups
    /\ elapsed = TRUE
    /\ pc = "start"
    /\ page = cfg.start_page
    /\ total_phones = 0
    /\ empty_pages_count = 0
    /\ existing_phones = {}
    /\ retry_count = 0
    /\ layout_type = "none"
    /\ products = 0
    /\ page_phones = <<>>
    /\ waits = <<>>
    /\ log = NoEntry
    /\ run = RunInit(csv, {})
    /\ lastSave = NoSave
    /\ probe = NoProbe
    /\ extraction = NoExtraction

\* lines 516-522
Start ==
    /\ pc = "start"
    /\ backups' = create_backup(backups, csv, elapsed)
    /\ elapsed' = after_backup(csv, elapsed)
    /\ existing_phones' = get_existing_phones(csv)
    /\ run' = RunInit(csv, existing_phones')
    /\ pc' = "loop"
    /\ UNCHANGED <<csv, page, total_phones, empty_pages_count,
                   retry_count, waits, log, locals, others>>

\* line 524, condition true; lines 525-529
LoopEnter ==
    /\ pc = "loop"
    /\ InRange
    /\ run.iters < MaxSpan
    /\ retry_count' = 0
    /\ waits' = <<>>
    /\ pc' = "fetch"
    /\ run' = [run EXCEPT !.iters = @ + 1]
    /\ UNCHANGED <<files, elapsed, page, total_phones, empty_pages_count,
                   existing_phones, log, locals, others>>

\* line 524, condition false; line 689
Return ==
    /\ pc = "loop"
    /\ ~InRange
    /\ pc' = "done"
    /\ UNCHANGED <<files, elapsed, page, total_phones, empty_pages_count,
                   existing_phones, retry_count, waits, log, run, locals, others>>

\* lines 531-535: the request succeeds, within the same second or later
FetchOk ==
    /\ pc = "fetch"
    /\ retry_count < cfg.max_retries
    /\ elapsed' \in {elapsed, TRUE}
    /\ pc' = "page"
    /\ UNCHANGED <<files, page, total_phones, empty_pages_count,
                   existing_phones, retry_count, waits, log, run, locals, others>>

\* FetchFail without page += 1 at line 546
FetchFail_stuck ==
    /\ pc = "fetch"
    /\ retry_count < cfg.max_retries
    /\ retry_count' = retry_count + 1
    /\ UNCHANGED <<files, total_phones, empty_pages_count, existing_phones,
                   locals, others>>
    /\ IF retry_count' < cfg.max_retries
       THEN LET wait_time == cfg.retry_delay * retry_count'
            IN  /\ waits' = Append(waits, wait_time)
                /\ elapsed' = (elapsed \/ wait_time > 0)
                /\ UNCHANGED <<page, pc, log, run>>
       ELSE /\ page' = page
            /\ pc' = "loop"
            /\ log' = Entry("fetch_failed", "none", FALSE, FALSE)
            /\ run' = NotBare
            /\ UNCHANGED <<waits, elapsed>>

\* FetchFail with wait_time = retry_delay at line 539
FetchFail_flat ==
    /\ pc = "fetch"
    /\ retry_count < cfg.max_retries
    /\ retry_count' = retry_count + 1
    /\ UNCHANGED <<files, total_phones, empty_pages_count, existing_phones,
                   locals, others>>
    /\ IF retry_count' < cfg.max_retries
       THEN LET wait_time == cfg.retry_delay
            IN  /\ waits' = Append(waits, wait_time)
                /\ elapsed' = (elapsed \/ wait_time > 0)
                /\ UNCHANGED <<page, pc, log, run>>
       ELSE /\ page' = page + 1
            /\ pc' = "loop"
            /\ log' = Entry("fetch_failed", "none", FALSE, FALSE)
            /\ run' = NotBare
            /\ UNCHANGED <<waits, elapsed>>

\* lines 536-550: the request raises
FetchFail ==
    /\ pc = "fetch"
    /\ retry_count < cfg.max_retries
    /\ retry_count' = retry_count + 1
    /\ UNCHANGED <<files, total_phones, empty_pages_count, existing_phones,
                   locals, others>>
    /\ IF retry_count' < cfg.max_retries
       THEN LET wait_time == cfg.retry_delay * retry_count'
            IN  /\ waits' = Append(waits, wait_time)
                /\ elapsed' = (elapsed \/ wait_time > 0)
                /\ UNCHANGED <<page, pc, log, run>>
       ELSE /\ page' = page + 1
            /\ pc' = "loop"
            /\ log' = Entry("fetch_failed", "none", FALSE, FALSE)
            /\ run' = NotBare
            /\ UNCHANGED <<waits, elapsed>>

\* lines 531, 549-550 when max_retries admits no attempt at all
FetchSkipped ==
    /\ pc = "fetch"
    /\ ~(retry_count < cfg.max_retries)
    /\ pc' = "loop"
    /\ UNCHANGED <<files, elapsed, page, total_phones, empty_pages_count,
                   existing_phones, retry_count, waits, locals, others>>
    /\ log' = Entry("not_fetched", "none", FALSE, FALSE)
    /\ run' = NotBare

\* lines 552-565 and 588-629 with containers to scan: the page is parsed
\* and classified, and an old or new page with containers resets the
\* empty-page counter
PageProducts(soup) ==
    LET layout == detect_layout(soup, page)
        found == IF layout = "newest" THEN RamRomHeaders(soup)
                 ELSE Len(find_products(soup, layout))
    IN  /\ pc = "page"
        /\ found > 0
        /\ layout_type' = layout
        /\ products' = found
        /\ page_phones' = <<>>
        /\ empty_pages_count' =
               IF layout = "newest" THEN empty_pages_count ELSE 0
        /\ pc' = "scan"
        /\ UNCHANGED <<files, elapsed, page, total_phones, existing_phones,
                       retry_count, waits, log, run, others>>

\* PageNoProducts without empty_pages_count += 1 at line 621
PageNoProducts_uncounted(soup) ==
    LET layout == detect_layout(soup, page)
    IN  /\ pc = "page"
        /\ layout # "newest"
        /\ find_products(soup, layout) = <<>>
        /\ empty_pages_count' = empty_pages_count
        /\ IF empty_pages_count' >= max_empty_pages
           THEN /\ pc' = "done"
                /\ page' = page
           ELSE /\ pc' = "loop"
                /\ page' = page + 1
        /\ ResetLocals
        /\ UNCHANGED <<files, elapsed, total_phones, existing_phones,
                       retry_count, waits, others>>
        /\ log' = Entry("no_products", layout, FALSE, FALSE)
        /\ run' = [run EXCEPT !.since = @ + 1, !.zero = @ + 1, !.bare = @ + 1]

\* lines 552-565 and 588-626: an old or new page without any container
PageNoProducts(soup) ==
    LET layout == detect_layout(soup, page)
    IN  /\ pc = "page"
        /\ layout # "newest"
        /\ find_products(soup, layout) = <<>>
        /\ empty_pages_count' = empty_pages_count + 1
        /\ IF empty_pages_count' >= max_empty_pages
           THEN /\ pc' = "done"
                /\ page' = page
           ELSE /\ pc' = "loop"
                /\ page' = page + 1
        /\ ResetLocals
        /\ UNCHANGED <<files, elapsed, total_phones, existing_phones,
                       retry_count, waits, others>>
        /\ log' = Entry("no_products", layout, FALSE, FALSE)
        /\ run' = [run EXCEPT !.since = @ + 1, !.zero = @ + 1, !.bare = @ + 1]

\* the names of the records of a page
Accepted(phones) == {phones[i].Name : i \in 1..Len(phones)}

\* line 647, condition false: the name of a candidate that is rejected
\* for its absent Price
Unpriced(phone_data, ledger) ==
    IF phone_data # None /\ Value(phone_data).Name # ""
           /\ Value(phone_data).Name \notin ledger
           /\ Value(phone_data).Price = None
    THEN {Value(phone_data).Name}
    ELSE {}

\* the lists of the page and the ledger after one heading or container
Scan(r, unpriced) ==
    /\ page_phones' = r.page_phones
    /\ existing_phones' = r.existing_phones
    /\ run' = [run EXCEPT !.accepted = @ \cup Accepted(r.page_phones),
                          !.unpriced = @ \cup unpriced]

\* lines 639-650 for the record of one container
ScanData(phone_data) ==
    Scan(scan_product(phone_data, page_phones, existing_phones),
         Unpriced(phone_data, existing_phones))

\* lines 567-587: one heading of a newest page
ScanHeader ==
    /\ pc = "scan"
    /\ products > 0
    /\ layout_type = "newest"
    /\ \E header \in Headers :
          Scan(scan_header(NewestLayoutData[header], page_phones,
                           existing_phones), {})
    /\ products' = products - 1
    /\ UNCHANGED <<files, elapsed, pc, page, total_phones, empty_pages_count,
                   retry_count, layout_type, waits, log, others>>

\* lines 631-654: one container of an old or new page
ScanProduct ==
    /\ pc = "scan"
    /\ products > 0
    /\ layout_type # "newest"
    /\ \E product \in Containers :
          ScanData(IF layout_type = "new" THEN NewLayoutData[product]
                                          ELSE OldLayoutData[product])
    /\ products' = products - 1
    /\ UNCHANGED <<files, elapsed, pc, page, total_phones, empty_pages_count,
                   retry_count, layout_type, waits, log, others>>

\* line 664
BackupDue == page % cfg.backup_interval = 0

\* PageSave with append=False at line 660
PageSave_overwrite ==
    /\ pc = "scan"
    /\ products = 0
    /\ page_phones # <<>>
    /\ LET append_mode == FALSE
           r == save_data_to_csv(backups, csv, page_phones, append_mode, elapsed)
       IN  /\ csv' = r.csv
           /\ backups' = IF BackupDue
                         THEN create_backup(r.backups, r.csv, r.elapsed)
                         ELSE r.backups
    /\ total_phones' = total_phones + Len(page_phones)
    /\ elapsed' = TRUE
    /\ page' = page + 1
    /\ pc' = "loop"
    /\ ResetLocals
    /\ UNCHANGED <<empty_pages_count, existing_phones, retry_count, waits,
                   others>>
    /\ log' = Entry("saved", layout_type, BackupDue, TRUE)
    /\ run' = [NotBare EXCEPT !.since = IF BackupDue THEN 0 ELSE @ + 1]

\* lines 656-665 and 673-679: the page's records are saved, the interval
\* backup is made, the loop sleeps 1 to 3 seconds and moves on
PageSave ==
    /\ pc = "scan"
    /\ products = 0
    /\ page_phones # <<>>
    /\ LET append_mode == csv.exists
           r == save_data_to_csv(backups, csv, page_phones, append_mode, elapsed)
       IN  /\ csv' = r.csv
           /\ backups' = IF BackupDue
                         THEN create_backup(r.backups, r.csv, r.elapsed)
                         ELSE r.backups
    /\ total_phones' = total_phones + Len(page_phones)
    /\ elapsed' = TRUE
    /\ page' = page + 1
    /\ pc' = "loop"
    /\ ResetLocals
    /\ UNCHANGED <<empty_pages_count, existing_phones, retry_count, waits,
                   others>>
    /\ log' = Entry("saved", layout_type, BackupDue, TRUE)
    /\ run' = [NotBare EXCEPT !.since = IF BackupDue THEN 0 ELSE @ + 1]

\* lines 666-679: no record was accepted
PageNoPhones ==
    /\ pc = "scan"
    /\ products = 0
    /\ page_phones = <<>>
    /\ empty_pages_count' = empty_pages_count + 1
    /\ IF empty_pages_count' >= max_empty_pages
       THEN /\ pc' = "done"
            /\ UNCHANGED <<page, elapsed>>
       ELSE /\ pc' = "loop"
            /\ page' = page + 1
            /\ elapsed' = TRUE
    /\ ResetLocals
    /\ UNCHANGED <<files, total_phones, existing_phones, retry_count, waits,
                   others>>
    /\ log' = Entry("no_phones", layout_type, FALSE, pc' = "loop")
    /\ run' = [NotBare EXCEPT !.since = @ + 1, !.zero = run.zero + 1]

\* An exception reaches the page-level handler: while the page is parsed
\* and classified, or out of save_data_to_csv before the file is written.
AtPageError == pc = "page" \/ (pc = "scan" /\ products = 0 /\ page_phones # <<>>)

\* lines 681-687
PageError ==
    /\ AtPageError
    /\ backups' = create_backup(backups, csv, elapsed)
    /\ elapsed' = after_backup(csv, elapsed)
    /\ page' = page + 1
    /\ pc' = "loop"
    /\ ResetLocals
    /\ UNCHANGED <<csv, total_phones, empty_pages_count,
                   existing_phones, retry_count, waits, others>>
    /\ log' = Entry("exception", layout_type, FALSE, FALSE)
    /\ run' = NotBare

\* lines 684-685: create_backup raises inside the handler, and the
\* exception leaves scrape_pricebook
HandlerError ==
    /\ AtPageError
    /\ csv.exists
    /\ pc' = "raised"
    /\ ResetLocals
    /\ UNCHANGED <<files, elapsed, page, total_phones, empty_pages_count,
                   existing_phones, retry_count, waits, others>>
    /\ log' = Entry("raised", layout_type, FALSE, FALSE)
    /\ run' = NotBare

Next ==
    \/ Start
    \/ LoopEnter
    \/ Return
    \/ FetchOk
    \/ FetchFail
    \/ FetchSkipped
    \/ \E soup \in CrawlSoups : PageProducts(soup)
    \/ \E soup \in CrawlSoups : PageNoProducts(soup)
    \/ ScanHeader
    \/ ScanProduct
    \/ PageSave
    \/ PageNoPhones
    \/ PageError
    \/ HandlerError

Spec == CrawlInit /\ [][Next]_vars

-----------------------------------------------------------------------------
(* detect_layout on its own *)

\* the variables of scrape_pricebook while it is not running
Idle ==
    /\ cfg = BaseConfig
    /\ pc = "idle"
    /\ page = 0
    /\ total_phones = 0
    /\ empty_pages_count = 0
    /\ existing_phones = {}
    /\ retry_count = 0
    /\ layout_type = "none"
    /\ products = 0
    /\ page_phones = <<>>
    /\ waits = <<>>
    /\ log = NoEntry

crawl == <<cfg, pc, page, total_phones, empty_pages_count, existing_phones,
           retry_count, layout_type, products, page_phones, waits, log>>

ProbeSoups == [h2Plain : 0..MaxPlainH2, h2Ram : 0..1, h2Rom : 0..1,
               h2Spec : 0..1, divs : SeqsUpTo(Classes, MaxProbeDivs)]

ProbePages == {1, 201, 202, 203, 269}

LayoutInit ==
    /\ Idle
    /\ csv = NoFile
    /\ backups = NoBackups
    /\ elapsed = TRUE
    /\ run = RunInit(NoFile, {})
    /\ lastSave = NoSave
    /\ probe \in [soup : ProbeSoups, page_number : ProbePages, result : {"none"}]
    /\ extraction = NoExtraction

Probe ==
    /\ probe.result = "none"
    /\ probe' = [probe EXCEPT !.result = detect_layout(probe.soup, probe.page_number)]
    /\ UNCHANGED <<crawl, csv, backups, elapsed, run, lastSave, extraction>>

NextLayout == Probe

SpecLayout == LayoutInit /\ [][NextLayout]_vars

-----------------------------------------------------------------------------
(* save_data_to_csv and create_backup on their own *)

SavePhones == {Listing("Galaxy A15", price) : price \in Prices}

SaveInit ==
    /\ Idle
    /\ csv \in InitialStores
    /\ backups = NoBackups
    /\ elapsed = TRUE
    /\ run = RunInit(csv, {})
    /\ lastSave = NoSave
    /\ probe = NoProbe
    /\ extraction = NoExtraction

SaveCall(data, append) ==
    /\ run.iters < MaxCalls
    /\ LET r == save_data_to_csv(backups, csv, data, append, elapsed)
       IN  /\ csv' = r.csv
           /\ backups' = r.backups
           /\ elapsed' = r.elapsed
           /\ lastSave' = Saved(data, append, csv, backups, r, elapsed)
    /\ run' = [run EXCEPT !.iters = @ + 1]
    /\ UNCHANGED <<crawl, probe, extraction>>

BackupCall ==
    /\ run.iters < MaxCalls
    /\ backups' = create_backup(backups, csv, elapsed)
    /\ elapsed' = after_backup(csv, elapsed)
    /\ run' = [run EXCEPT !.iters = @ + 1]
    /\ UNCHANGED <<crawl, csv, lastSave, probe, extraction>>

\* the clock moves to the next second
Tick ==
    /\ ~elapsed
    /\ elapsed' = TRUE
    /\ UNCHANGED <<crawl, csv, backups, run, lastSave, probe, extraction>>

NextSave ==
    \/ \E data \in SeqsUpTo(SavePhones, MaxData), append \in BOOLEAN :
           SaveCall(data, append)
    \/ BackupCall
    \/ Tick

SpecSave == SaveInit /\ [][NextSave]_vars

-----------------------------------------------------------------------------
(* The record extractors on their own *)

ExtractNames == {" Galaxy A15 ", "Redmi 13 RAM 8GB ROM 128GB"}

\* containers that differ in their price candidates
PriceProducts ==
    {[name |-> "Galaxy A15", year |-> NoElement, texts |-> texts,
      links |-> links, cells |-> cells, priced |-> priced,
      specs |-> <<>>] :
        texts \in SeqsUpTo({"Rp 1.250.000", "Rp 0", "Rp -"}, MaxNodes),
        links \in SeqsUpTo({"Rp 999.000", "Rp -"}, MaxNodes),
        cells \in SeqsUpTo({"Rp 750.000", "Rp -"}, MaxCells),
        priced \in SeqsUpTo({"Rp 500.000", "Rp 0"}, MaxCells)}

SpecItems == {"8GB", "RAM 8GB", "ROM 128GB", "50 MP", "6.5 inch",
              "1.2.3 inch", "5000 mAh"}

\* containers that differ in their name and their spec items
SpecProducts ==
    {[name |-> name, year |-> NoElement, texts |-> <<name>>,
      links |-> <<>>, cells |-> <<>>, priced |-> <<>>, specs |-> specs] :
        name \in ExtractNames \cup {NoElement},
        specs \in SeqsUpTo(SpecItems, MaxItems)}

\* containers that differ in their year-released element and text nodes
YearProducts ==
    {[name |-> "Galaxy A15", year |-> year, texts |-> texts,
      links |-> <<>>, cells |-> <<>>, priced |-> <<>>,
      specs |-> <<>>] :
        year \in {NoElement, "2023", "1999", "0", "n/a"},
        texts \in SeqsUpTo({"Galaxy A15", "Rilis 2021", "Rp 1.250.000"},
                           MaxNodes)}

ExtractProducts == PriceProducts \cup SpecProducts \cup YearProducts

ExtractHeaders ==
    [text : {"Redmi 13 RAM 8GB ROM 128GB", "Poco X6 RAM 7.5GB ROM 256GB"},
     link : {NoElement, "", "Rp 1.250.000", "Rp -",
             "Rp 1.250.000 50 MP 6.5 inch 5000 mAh 2023",
             "Rp 1.250.000 50 MP 1.2.3 inch 5000 mAh 2023",
             "Rp 1.250.000 50 MP  5000 mAh 2023"}]

Extraction(layout, source) ==
    [layout |-> layout, source |-> source, done |-> FALSE, result |-> None,
     specs |-> NoSpecs]

ExtractInit ==
    /\ Idle
    /\ csv = NoFile
    /\ backups = NoBackups
    /\ elapsed = TRUE
    /\ run = RunInit(NoFile, {})
    /\ lastSave = NoSave
    /\ probe = NoProbe
    /\ extraction \in
           {Extraction(layout, product) :
                layout \in {"old", "new"}, product \in ExtractProducts}
           \cup {Extraction("newest", header) : header \in ExtractHeaders}

ExtractOld ==
    /\ ~extraction.done
    /\ extraction.layout = "old"
    /\ extraction' =
           [extraction EXCEPT
               !.done = TRUE,
               !.result = extract_product_data_old_layout(extraction.source),
               !.specs = specs_of("old", extraction.source)]
    /\ UNCHANGED <<crawl, csv, backups, elapsed, run, lastSave, probe>>

ExtractNew ==
    /\ ~extraction.done
    /\ extraction.layout = "new"
    /\ extraction' =
           [extraction EXCEPT
               !.done = TRUE,
               !.result = extract_product_data_new_layout(extraction.source),
               !.specs = specs_of("new", extraction.source)]
    /\ UNCHANGED <<crawl, csv, backups, elapsed, run, lastSave, probe>>

ExtractNewest ==
    /\ ~extraction.done
    /\ extraction.layout = "newest"
    /\ extraction' =
           [extraction EXCEPT
               !.done = TRUE,
               !.result = extract_product_data_newest_layout(extraction.source)]
    /\ UNCHANGED <<crawl, csv, backups, elapsed, run, lastSave, probe>>

NextExtract == ExtractOld \/ ExtractNew \/ ExtractNewest

SpecExtract == ExtractInit /\ [][NextExtract]_vars

-----------------------------------------------------------------------------
(* Properties *)

TypeOK ==
    /\ pc \in {"start", "loop", "fetch", "page", "scan", "done", "raised", "idle"}
    /\ empty_pages_count \in 0..max_empty_pages
    /\ existing_phones \subseteq Names \cup {NaN}
    /\ probe.result \in {"none", "old", "new", "newest"}

\* the rows the run has appended to the store it found at crawl start
Appended == SubSeq(Rows(csv), Len(Rows(run.csv0)) + 1, Len(Rows(csv)))

\* C1: no row appended during a run has the Name of a row that was in the
\* store at crawl start, or of a row appended earlier in the run.
C1_NoDuplicateRecords ==
    \A i \in Len(Rows(run.csv0)) + 1 .. Len(Rows(csv)) :
        \A j \in 1..(i - 1) : Rows(csv)[j].Name # Rows(csv)[i].Name

\* the lines a step has added at the end of the store
NewLines == SubSeq(csv'.lines, Len(csv.lines) + 1, Len(csv'.lines))

\* C2: every record the crawl loop persists has a non-empty Name, and one
\* without a Price is persisted only from a page classified newest.
C2_PersistedRecords ==
    [][pc \notin {"idle"} /\ csv' # csv =>
          \A line \in Range(NewLines) :
              IsRow(line) =>
                  /\ line.Name # ""
                  /\ line.Price = None => layout_type = "newest"]_vars

C2_Witness ==
    /\ log.kind = "saved"
    /\ log.layout = "newest"
    /\ \E row \in Range(Appended) : row.Price = None
    /\ \E row \in Range(Appended) : row.Price # None

\* C3: when the three most recent iterations each fetched their page and
\* accepted no record, the crawl has stopped at the third.
C3_StopsAtThirdEmptyPage ==
    run.zero >= max_empty_pages => pc = "done" /\ log.stop

EmptyStop == log.stop /\ log.kind \in {"no_products", "no_phones"}

\* C4: after a page that yielded an accepted record empty_pages_count is
\* 0, and when the crawl stops on the empty-page condition the three most
\* recent pages each yielded no accepted record.
C4_AcceptedPageResetsStreak ==
    /\ log.kind = "saved" => empty_pages_count = 0
    /\ EmptyStop => run.zero >= max_empty_pages

\* C5: with max_retries >= 1 every iteration that does not stop the crawl
\* raises the page index by exactly one, the page fetched is between
\* start_page and end_page, and a finite end_page allows at most
\* end_page - start_page + 1 iterations.
C5_ForwardProgress ==
    cfg.max_retries >= 1 /\ pc # "idle" =>
        /\ pc \in {"fetch", "page", "scan"} =>
              /\ page = cfg.start_page + run.iters - 1
              /\ page >= cfg.start_page
              /\ InRange
        /\ pc \in {"start", "loop"} => page = cfg.start_page + run.iters
        /\ cfg.end_page # None =>
              run.iters <= Value(cfg.end_page) - cfg.start_page + 1

C5_Witness ==
    /\ pc = "done"
    /\ cfg.end_page = Some(2)
    /\ cfg.start_page = 1
    /\ run.iters = 2
    /\ log.kind = "exception"

\* the waits of a page whose fetch was given up, as stated by C6: one
\* after each failed attempt, max_retries retries
ClaimedWaits == [n \in 1..cfg.max_retries |-> cfg.retry_delay * n]

\* the waits of a page whose fetch was given up: one after each failed
\* attempt but the last, max_retries attempts
GivenUpWaits == [n \in 1..(cfg.max_retries - 1) |-> cfg.retry_delay * n]

GivesUp == pc = "fetch" /\ pc' = "loop" /\ cfg.max_retries >= 1

C7_BackupCadence ==
    csv.exists => run.since < cfg.backup_interval

DataRows(data) ==
    [i \in 1..Len(data) |-> Row(data[i])]

\* C8: save_data_to_csv by cases on (append, file exists).
C8_SaveByCases ==
    lastSave.called =>
        LET before == lastSave.before
            after == lastSave.after
            rows == DataRows(lastSave.data)
            fresh == /\ after.exists
                     /\ Len(after.lines) = 1 + Len(rows)
                     /\ Head(after.lines).kind = "header"
                     /\ Tail(after.lines) = rows
        IN  /\ before.exists /\ ~lastSave.append =>
                /\ lastSave.backupsAfter # <<>>
                /\ lastSave.backupsAfter[Len(lastSave.backupsAfter)] = before
                /\ fresh
            /\ before.exists /\ lastSave.append =>
                /\ after.exists
                /\ after.lines = before.lines \o rows
                /\ lastSave.backupsAfter = lastSave.backupsBefore
            /\ ~before.exists =>
                /\ fresh
                /\ lastSave.backupsAfter = lastSave.backupsBefore

C8_Witness ==
    /\ lastSave.called
    /\ lastSave.before.exists
    /\ ~lastSave.append
    /\ Len(lastSave.data) = 2
    /\ Len(lastSave.backupsBefore) = 1

NewMarker(soup) == \E i \in 1..Len(soup.divs) : soup.divs[i] \in HasProductAndPanel
OldMarker(soup) == \E i \in 1..Len(soup.divs) : soup.divs[i] \in ExactPanel \cup RowClass

\* C9: detect_layout returns newest iff there are more than five headings
\* and one of them has both "RAM" and "ROM"; otherwise new if a new-layout
\* marker exists; otherwise old if an old-layout marker exists; otherwise
\* new from page 202 on and old before.
C9_DetectLayout ==
    probe.result # "none" =>
        LET soup == probe.soup
            headings == soup.h2Plain + soup.h2Ram + soup.h2Rom + soup.h2Spec
            newest == headings > 5 /\ soup.h2Spec >= 1
        IN  /\ probe.result = "newest" <=> newest
            /\ ~newest /\ NewMarker(soup) => probe.result = "new"
            /\ ~newest /\ ~NewMarker(soup) /\ OldMarker(soup) =>
                   probe.result = "old"
            /\ ~newest /\ ~NewMarker(soup) /\ ~OldMarker(soup) =>
                   probe.result = IF probe.page_number >= 202 THEN "new" ELSE "old"

C9_Witness ==
    /\ probe.result = "new"
    /\ probe.page_number = 202
    /\ probe.soup.divs = <<"footer", "card">>
    /\ probe.soup.h2Plain = 5
    /\ probe.soup.h2Ram = 1
    /\ probe.soup.h2Rom = 1
    /\ probe.soup.h2Spec = 0

\* C10: when the three most recent iterations each fetched their page and
\* found no container, the crawl has stopped at the third without an
\* exception, and the store and the total are as they were before the
\* three pages.
C10_ThreeBarePagesStop ==
    run.bare >= max_empty_pages =>
        /\ pc = "done"
        /\ log.stop
        /\ csv = run.mark.csv
        /\ total_phones = run.mark.total

C10_Witness ==
    /\ run.bare = max_empty_pages
    /\ pc = "done"
    /\ csv.exists
    /\ log.layout = "old"


\* a spec item, or link text, whose screen size matches ([\d.]+)\s*inch
\* and is no number
MalformedInch(text) ==
    LET m == re_search(NumberInch, strip(Text(text)))
    IN  m.ok /\ float(m.group) = None

\* the text without its inch token
WithoutInch(text) ==
    LET chars == strip(Text(text))
        m == re_search(NumberInch, chars)
    IN  String(SubSeq(chars, 1, m.start - 1)
                   \o SubSeq(chars, m.end, Len(chars)))

HasMalformed(layout, source) ==
    IF layout = "newest"
    THEN source.link # NoElement /\ MalformedInch(source.link)
    ELSE /\ source.name # NoElement
         /\ \E i \in 1..Len(source.specs) : MalformedInch(source.specs[i])

WithoutMalformed(layout, source) ==
    IF layout = "newest"
    THEN [source EXCEPT !.link = WithoutInch(@)]
    ELSE [source EXCEPT
             !.specs = SelectSeq(@, LAMBDA item : ~MalformedInch(item))]

Extracted(layout, source) ==
    CASE layout = "old" -> extract_product_data_old_layout(source)
      [] layout = "new" -> extract_product_data_new_layout(source)
      [] layout = "newest" -> extract_product_data_newest_layout(source)

\* C11: an extractor given a named product with a malformed screen size
\* returns a record, and the record is the one it returns for the product
\* without the malformed text.
C11_MalformedFieldKeepsRecord ==
    extraction.done /\ HasMalformed(extraction.layout, extraction.source) =>
        /\ extraction.result # None
        /\ extraction.result =
               Extracted(extraction.layout,
                         WithoutMalformed(extraction.layout, extraction.source))

\* the price candidates of a container in the order of the methods
Candidates(layout, product) ==
    IF layout = "old"
    THEN WithRp(product.links) \o WithRp(product.texts)
             \o WithRp(product.cells) \o WithRp(product.priced)
    ELSE WithRp(product.texts) \o WithRp(product.priced)

RECURSIVE FirstPresent(_)
FirstPresent(candidates) ==
    IF candidates = <<>> THEN None
    ELSE IF clean_price(Text(Head(candidates))) # None
         THEN clean_price(Text(Head(candidates)))
         ELSE FirstPresent(Tail(candidates))

\* C12: the Price of a record of the old or new extractor is the
\* clean_price value of the first candidate, in the order of the methods,
\* that has one.
C12_PriceChain ==
    /\ extraction.done
    /\ extraction.layout \in {"old", "new"}
    /\ extraction.result # None
    => Value(extraction.result).Price =
           FirstPresent(Candidates(extraction.layout, extraction.source))

\* C13: RAM and Storage of a record of the old or new extractor never get
\* their value from the same spec item.
C13_NoItemForBoth ==
    /\ extraction.done
    /\ extraction.layout \in {"old", "new"}
    /\ extraction.result # None
    =>  ~(extraction.specs.ramItem # 0
              /\ extraction.specs.ramItem = extraction.specs.storageItem)

\* C14: the ReleaseYear of an extracted record is absent or in 2000..2099.
C14_ReleaseYearInRange ==
    extraction.done /\ extraction.result # None =>
        \/ Value(extraction.result).ReleaseYear = None
        \/ Value(Value(extraction.result).ReleaseYear) \in 2000..2099

\* C15: an iteration that fetched its page and did not stop the crawl
\* slept before it advanced the page index.
C15_SleepBeforeAdvance ==
    log.kind \in {"saved", "no_phones", "no_products", "exception"}
        /\ ~log.stop => log.slept

IsPrefix(s, t) == Len(s) <= Len(t) /\ SubSeq(t, 1, Len(s)) = s

\* C16: every step keeps the lines of an existing store as a prefix of the
\* store, the page index never decreases, and a step that changes the
\* store adds the rows of the current page's records and moves to the next
\* page.
C16_AppendOnlyInPageOrder ==
    [][/\ page' >= page
       /\ csv.exists => csv'.exists /\ IsPrefix(csv.lines, csv'.lines)
       /\ csv' # csv =>
              /\ page_phones # <<>>
              /\ page' = page + 1
              /\ csv'.lines =
                     (IF csv.exists THEN csv.lines ELSE <<Header(Columns)>>)
                         \o [i \in 1..Len(page_phones) |-> Row(page_phones[i])]
      ]_vars

C16_Witness ==
    /\ run.csv0.exists
    /\ Len(Rows(csv)) = Len(Rows(run.csv0)) + 2
    /\ IsPrefix(run.csv0.lines, csv.lines)
    /\ log.kind = "saved"
    /\ log.gain = 1

\* C17: no step changes or removes a backup that exists.
C17_BackupsImmutable ==
    [][\A i \in 1..Len(backups) :
           i <= Len(backups') /\ backups'[i] = backups[i]]_vars

\* C18: the ledger is the set seeded at crawl start united with the names
\* of the records accepted so far in the run.
C18_LedgerGrowsByAccepted ==
    pc \notin {"start", "idle"} =>
        existing_phones = run.seeded \cup run.accepted

\* a name rejected for an absent Price was accepted further down the page
C18_Witness ==
    /\ pc = "scan"
    /\ products = 0
    /\ run.unpriced \cap Accepted(page_phones) # {}
    /\ existing_phones # run.seeded

\* C19: detect_layout returns old only for a page without a productPanel
\* container, and without the container styles_productPanel__Tlvp6, that
\* has a row container or that has no marker and an index below 202.
C19_OldOnlyWithoutPanel ==
    probe.result = "old" =>
        LET classes == Range(probe.soup.divs)
        IN  /\ classes \cap ExactPanel = {}
            /\ classes \cap HasProductPanel = {}
            /\ \/ classes \cap RowClass # {}
               \/ /\ classes \cap (HasProductAndPanel \cup RowClass) = {}
                  /\ probe.page_number < LayoutSwitchPage

C19_Witness ==
    /\ probe.result = "old"
    /\ probe.page_number = 269
    /\ probe.soup.divs = <<"row", "card">>
    /\ probe.soup.h2Plain = 6
    /\ probe.soup.h2Spec = 0

====
